---- MODULE Spec2Model ----
(***************************************************************************)
(* A model of the tools of tokenring-ai/javascript: the current            *)
(* installPackages and removePackages (src/tools) and their earlier        *)
(* variants (src/unnamed/part_000, part_001, part_002, part_006,           *)
(* part_007); runJavaScriptScript in its versions on TerminalService, on   *)
(* execa (src/tools/runJavaScriptScript.ts) and on                         *)
(* filesystem.executeCommand (src/unnamed/part_004); eslint in its         *)
(* current version (src/tools/eslint.ts) and in that of part_003.          *)
(* Each tool has its own variables and its own specification; a            *)
(* specification of one tool leaves the variables of the others alone.     *)
(*                                                                         *)
(* Strings.  A JavaScript string is modelled as the sequence of its        *)
(* tokens.  In a package-name input and in a command line the blank " "    *)
(* is always a token of its own and every other token is blank-free, so    *)
(* that trim(), the split of the input into package names and the          *)
(* equality of two command lines are computed on the tokens.  The empty    *)
(* string is the empty sequence.  A template literal is the concatenation  *)
(* of its literal tokens and of its interpolated strings.  Message text    *)
(* that is never split is kept as one token per literal fragment.          *)
(***************************************************************************)
EXTENDS Integers, Sequences, FiniteSets, TLC

\* ------------------------------------------------------------- bounds
\* The longest package-name input, in tokens.
MaxNameLen == 3
\* The largest exit code a child process ends with.
MaxExitCode == 2

\* How far below 0 and above the upper limit the timeouts given to
\* runJavaScriptScript go.
TimeoutBeyond == 2

\* The longest files list given to eslint.
MaxFiles == 2

\* The changes of the lockfiles others make during one call's existence checks.
MaxRaces == 2

\* Math.max(5, Math.min(timeoutSeconds || 30, 300)) and `timeout * 1000`.
MinTimeout == 5

MaxTimeout == 300

DefaultTimeout == 30

MsPerSecond == 1000

\* ------------------------------------------------------------- strings
Blank == " "

\* The tokens a package-name input is made of.
NameTokens == {"left-pad", "lodash", Blank}

\* Every packageName the tools are called with (z.string(): any string).
PackageNameInputs == UNION {[1..n -> NameTokens] : n \in 0..MaxNameLen}

RECURSIVE TrimStart(_)
TrimStart(s) ==
  IF s = <<>> THEN <<>>
  ELSE IF Head(s) = Blank THEN TrimStart(Tail(s)) ELSE s

RECURSIVE TrimEnd(_)
TrimEnd(s) ==
  IF s = <<>> THEN <<>>
  ELSE IF s[Len(s)] = Blank THEN TrimEnd(SubSeq(s, 1, Len(s) - 1)) ELSE s

\* String.prototype.trim
Trim(s) == TrimEnd(TrimStart(s))

\* ------------------------------------------------------------- the tools
InstallTools == {"installPackages", "installPackages_part000", "installPackages_part001"}
RemoveTools ==
  {"removePackages", "removePackages_part002", "removePackages_part006",
   "removePackages_part007"}
Tools == InstallTools \cup RemoveTools

\* The versions the package exports today (src/tools.ts).
CurrentTools == {"installPackages", "removePackages"}

MarkerFiles == {"bun.lock", "pnpm-lock.yaml", "yarn.lock", "package-lock.json"}

\* `const name = ...` of each version; part_001 prefixes with its toolName,
\* part_002 declares no name.
ToolName(tool) ==
  CASE tool = "installPackages" -> "javascript_installPackages"
    [] tool = "installPackages_part000" -> "javascript/installPackages"
    [] tool = "installPackages_part001" -> "installPackages"
    [] tool = "removePackages" -> "javascript_removePackages"
    [] tool = "removePackages_part002" -> ""
    [] tool = "removePackages_part006" -> "javascript_removePackages"
    [] tool = "removePackages_part007" -> "javascript/removePackages"

\* `[${name}]`
Prefix(tool) == "[" \o ToolName(tool) \o "]"

\* ------------------------------------------------------------- JavaScript values
\* A value a call hands to its caller, tagged with its type.
Undefined == [t |-> "undefined"]
Str(s) == [t |-> "string", s |-> s]
\* { error: msg }
ErrorObject(msg) == [t |-> "object", error |-> msg]
\* new Error(msg)
Error(msg) == [t |-> "Error", message |-> msg]

Returned(v) == [kind |-> "returned", value |-> v]
Thrown(msg) == [kind |-> "thrown", value |-> Error(msg)]
Pending == [kind |-> "pending", value |-> Undefined]

\* ------------------------------------------------------------- validation
\* A check that lets every input through (what part_002 does), for C6.
RejectsNothing(tool, packageName) == FALSE

\* The input check each version makes before it looks at the project root:
\* TRUE when the call is rejected.
\* installPackages (all versions): `!packageName`;
\* removePackages: `!packageName || packageName.trim() === ""`;
\* part_002 checks nothing.
Rejects(tool, packageName) ==
  CASE tool \in InstallTools -> packageName = <<>>
    [] tool = "removePackages_part002" -> FALSE
    [] OTHER -> packageName = <<>> \/ Trim(packageName) = <<>>

\* What a rejected call gives its caller.
RejectedOutcome(tool) ==
  CASE tool = "installPackages_part001" ->
         Returned(ErrorObject(<<"packageName is required">>))
    [] tool \in InstallTools \ {"installPackages_part001"} ->
         Thrown(<<Prefix(tool), " packageName is required">>)
    [] OTHER -> Thrown(<<Prefix(tool), " package name must be provided.">>)

\* ------------------------------------------------------------- detection
\* The lockfiles each version looks for, in the order of its `if` statements.
InstallLockfiles == <<"pnpm-lock.yaml", "yarn.lock", "package-lock.json">>
RemoveLockfiles == <<"bun.lock", "pnpm-lock.yaml", "yarn.lock", "package-lock.json">>
EarlierRemoveLockfiles == <<"pnpm-lock.yaml", "yarn.lock", "package-lock.json">>

Lockfiles(tool) ==
  CASE tool \in InstallTools -> InstallLockfiles
    [] tool = "removePackages" -> RemoveLockfiles
    [] OTHER -> EarlierRemoveLockfiles

\* filesystem.exists(file) / filesystem.existsSync(file) in the project root.
\* The filesystem and command services are taken to answer every request: a
\* command that cannot be run or times out is an answer (ChildOutcomes), not a throw.
Exists(file, present) == file \in present

\* Falling off the last `if` without a throw (what part_002 does), for C3.
NotDetectedSilently(tool) == Returned(Undefined)

\* What a call gives its caller when none of its lockfiles exists.
NotDetectedOutcome(tool) ==
  CASE tool \in {"installPackages", "installPackages_part000"} ->
         Thrown(<<Prefix(tool), " No supported package manager lock file found", " (",
                  "pnpm-lock.yaml", ", ", "yarn.lock", ", ", "package-lock.json", ").">>)
    [] tool = "installPackages_part001" ->
         Returned(ErrorObject(<<"No supported package manager lock file found", " (",
                  "pnpm-lock.yaml", ", ", "yarn.lock", ", ", "package-lock.json", ").">>))
    [] tool = "removePackages_part002" -> Returned(Undefined)
    [] OTHER ->
         Thrown(<<Prefix(tool), " unable to detect package manager", " (no lockfile found).">>)

\* ------------------------------------------------------------- commands
\* installPackages: the `command` template literal of each branch.
InstallCommand(lockfile, isDev, packageName) ==
  CASE lockfile = "pnpm-lock.yaml" ->
         <<"pnpm", Blank, "add", Blank>> \o (IF isDev THEN <<"-D", Blank>> ELSE <<>>)
           \o packageName
    [] lockfile = "yarn.lock" ->
         <<"yarn", Blank, "add", Blank>> \o (IF isDev THEN <<"--dev", Blank>> ELSE <<>>)
           \o packageName
    [] lockfile = "package-lock.json" ->
         <<"npm", Blank, "install", Blank>>
           \o (IF isDev THEN <<"--save-dev", Blank>> ELSE <<>>) \o packageName

\* installPackages: the agent.infoMessage / chatService.infoLine of each branch.
InstallInfo(tool, lockfile, packageName) ==
  <<Prefix(tool), Blank, "Detected", Blank,
    CASE lockfile = "pnpm-lock.yaml" -> "pnpm"
      [] lockfile = "yarn.lock" -> "yarn"
      [] lockfile = "package-lock.json" -> "npm",
    ",", Blank, "installing", Blank>> \o packageName

\* removePackages (current): terminal.executeCommand(exe, ['remove', packageName]):
\* the executable followed by its arguments, each a string.
RemoveArgv(lockfile, packageName) ==
  CASE lockfile = "bun.lock" -> <<(<<"bun">>), (<<"remove">>), packageName>>
    [] lockfile = "pnpm-lock.yaml" -> <<(<<"pnpm">>), (<<"remove">>), packageName>>
    [] lockfile = "yarn.lock" -> <<(<<"yarn">>), (<<"remove">>), packageName>>
    [] lockfile = "package-lock.json" -> <<(<<"npm">>), (<<"remove">>), packageName>>

\* removePackages (part_002, part_006, part_007): the `command` template literal.
EarlierRemoveCommand(lockfile, packageName) ==
  CASE lockfile = "pnpm-lock.yaml" -> <<"pnpm", Blank, "remove", Blank>> \o packageName
    [] lockfile = "yarn.lock" -> <<"yarn", Blank, "remove", Blank>> \o packageName
    [] lockfile = "package-lock.json" -> <<"npm", Blank, "uninstall", Blank>> \o packageName

\* The timeout a caller may ask for, and the timeout a started process is given.
\* No version reads a timeout from its arguments (inputSchema: packageName, isDev)
\* and none passes one on: removePackages hands executeCommand the options {},
\* the others hand bash / runShellCommand the command alone.
NoTimeout == "none"

CallTimeouts == {NoTimeout, "10s"}

\* The process a call starts once `lockfile` is found.  shell = TRUE: one command
\* string handed to bash / runShellCommand; shell = FALSE: an executable and its
\* argument list handed to terminal.executeCommand.  timeout: the timeout option
\* the process is started with.
SpawnOf(tool, lockfile, isDev, packageName) ==
  CASE tool \in InstallTools ->
         [shell |-> TRUE, argv |-> <<InstallCommand(lockfile, isDev, packageName)>>,
          timeout |-> NoTimeout]
    [] tool = "removePackages" ->
         [shell |-> FALSE, argv |-> RemoveArgv(lockfile, packageName),
          timeout |-> NoTimeout]
    [] OTHER ->
         [shell |-> TRUE, argv |-> <<EarlierRemoveCommand(lockfile, packageName)>>,
          timeout |-> NoTimeout]

\* ------------------------------------------------------------- results
\* How the child process of a call ends: it exits with a code, it cannot be run,
\* or it outlives the timeout of the command service.
ChildOutcomes ==
  {[kind |-> "exit", code |-> 0, stdout |-> <<"done">>, stderr |-> <<>>]}
    \cup {[kind |-> "exit", code |-> c, stdout |-> <<>>, stderr |-> <<"not found">>] :
            c \in 1..MaxExitCode}
    \cup {[kind |-> "error", code |-> 0, stdout |-> <<>>, stderr |-> <<"spawn ENOENT">>],
          [kind |-> "timeout", code |-> 0, stdout |-> <<>>, stderr |-> <<>>]}

NoChild == [kind |-> "none", code |-> 0, stdout |-> <<>>, stderr |-> <<>>]

\* The result of terminal.executeCommand, as removePackages reads it: a status
\* and, by status, output / exitCode / error.
TerminalResult(c) ==
  CASE c.kind = "exit" /\ c.code = 0 ->
         [status |-> "success", output |-> c.stdout \o c.stderr]
    [] c.kind = "exit" /\ c.code # 0 ->
         [status |-> "badExitCode", output |-> c.stdout \o c.stderr, exitCode |-> c.code]
    [] c.kind = "error" -> [status |-> "unknownError", error |-> c.stderr]
    [] OTHER -> [status |-> "timeout"]

\* The ExecuteCommandResult of runShellCommand / bash.
ShellResult(c) ==
  CASE c.kind = "exit" ->
         [t |-> "ExecuteCommandResult", ok |-> c.code = 0, exitCode |-> c.code,
          stdout |-> c.stdout, stderr |-> c.stderr]
    [] c.kind = "error" -> [t |-> "ExecuteCommandResult", ok |-> FALSE, error |-> c.stderr]
    [] OTHER -> [t |-> "ExecuteCommandResult", ok |-> FALSE, error |-> <<"Timeout">>]

\* A status test that takes a bad exit code for success, for C10.
RemoveMessageOnAnyExit(packageName, result) ==
  IF result.status \in {"success", "badExitCode"}
  THEN <<"Package", Blank>> \o packageName \o <<Blank, "removed">>
  ELSE <<"Package", Blank>> \o packageName \o <<Blank, "could not be removed:", "\n">>
         \o (IF result.status = "unknownError" THEN result.error ELSE <<"Timeout">>)

\* removePackages (current): the string each branch returns.
RemoveMessage(packageName, result) ==
  IF result.status = "success"
  THEN <<"Package", Blank>> \o packageName \o <<Blank, "removed">>
  ELSE LET output ==
             IF result.status = "badExitCode" THEN result.output
             ELSE IF result.status = "unknownError" THEN result.error
             ELSE <<"Timeout">>
       IN <<"Package", Blank>> \o packageName \o <<Blank, "could not be removed:", "\n">>
            \o output

\* What a call returns once its command has ended as c.
ResultOf(tool, packageName, c) ==
  CASE tool = "removePackages" -> Str(RemoveMessage(packageName, TerminalResult(c)))
    [] tool = "removePackages_part006" ->
         [t |-> "object", type |-> "json", data |-> ShellResult(c)]
    [] OTHER -> ShellResult(c)

\* ------------------------------------------------------------- state
VARIABLES
  markers,   \* the marker files present in the project root
  pc,        \* where the call in progress stands: idle, detecting, running, done
  call,      \* the tool called and its arguments
  ruleIdx,   \* the lockfile the call checks next, as an index of Lockfiles(tool)
  probes,    \* the existence checks the call has made, in order
  infoLog,   \* the info messages the call has sent to the agent
  spawned,   \* the processes the call has started, in order
  child,     \* how the started process ended
  outcome,   \* what the call gave its caller: pending, returned or thrown
  seen,      \* history: the contents the project root has had during the call
  prev       \* history: an earlier call, the markers it ran against and its choice

VARIABLES
  spc,       \* runJavaScriptScript: where the call in progress stands
  scall,     \* the tool called and its arguments
  tempFile,  \* the name of the temporary script file of the call
  workdir,   \* the files of the working directory and their contents
  steps,     \* the writes, info lines, commands and deletes of the call, in order
  node,      \* how the node command ended
  held,      \* what the try block ended with, kept while `finally` runs
  soutcome   \* what the call gave its caller

VARIABLES
  epc,       \* eslint: where the call in progress stands
  ecall,     \* the tool called and its arguments
  disk,      \* the source files and their contents
  fileIdx,   \* the file of the list the loop is at
  source,    \* what readFile gave for that file
  fixed,     \* what lintText gave for it: result.output
  results,   \* the array the call builds
  lints,     \* the lintText calls of the call and what they gave, in order
  writes,    \* the writeFile calls of the call, in order
  dirty,     \* the setDirty calls of the call, in order
  lines,     \* the infoLine / errorLine calls of the call, in order
  faults,    \* history: the calls the tool made that failed, in order
  eoutcome   \* what the call gave its caller

packageVars ==
  <<markers, pc, call, ruleIdx, probes, infoLog, spawned, child, outcome, seen, prev>>

scriptVars == <<spc, scall, tempFile, workdir, steps, node, held, soutcome>>

eslintVars ==
  <<epc, ecall, disk, fileIdx, source, fixed, results, lints, writes, dirty, lines,
    faults, eoutcome>>

vars == <<packageVars, scriptVars, eslintVars>>

NoCall == [tool |-> "none", packageName |-> <<>>, isDev |-> FALSE, timeout |-> NoTimeout]

NoPrev == [tool |-> "none", markers |-> {}, selected |-> "none"]

\* The lockfile whose branch the call took; "none" before that and without one.
Selected == IF spawned # <<>> THEN probes[Len(probes)] ELSE "none"

PackageInit ==
  /\ markers = {}
  /\ pc = "idle"
  /\ call = NoCall
  /\ ruleIdx = 0
  /\ probes = <<>>
  /\ infoLog = <<>>
  /\ spawned = <<>>
  /\ child = NoChild
  /\ outcome = Pending
  /\ seen = {}
  /\ prev = NoPrev

\* A lockfile appears in / disappears from the project root.
CreateMarker(file) ==
  /\ file \notin markers
  /\ markers' = markers \cup {file}
  /\ seen' = IF pc = "detecting" THEN seen \cup {markers'} ELSE seen
  /\ UNCHANGED <<pc, call, ruleIdx, probes, infoLog, spawned, child, outcome, prev>>
  /\ UNCHANGED <<scriptVars, eslintVars>>

DeleteMarker(file) ==
  /\ file \in markers
  /\ markers' = markers \ {file}
  /\ seen' = IF pc = "detecting" THEN seen \cup {markers'} ELSE seen
  /\ UNCHANGED <<pc, call, ruleIdx, probes, infoLog, spawned, child, outcome, prev>>
  /\ UNCHANGED <<scriptVars, eslintVars>>

\* execute(...) up to its first await: the input check.  `timeout` is what the
\* caller asks for; execute reads packageName (and isDev) alone.
Execute(tool, packageName, isDev, timeout) ==
  /\ pc = "idle"
  /\ call' = [tool |-> tool, packageName |-> packageName, isDev |-> isDev,
              timeout |-> timeout]
  /\ IF Rejects(tool, packageName)
     THEN /\ pc' = "done"
          /\ outcome' = RejectedOutcome(tool)
          /\ ruleIdx' = 0
     ELSE /\ pc' = "detecting"
          /\ outcome' = Pending
          /\ ruleIdx' = 1
  /\ seen' = {markers}
  /\ UNCHANGED <<markers, probes, infoLog, spawned, child, prev>>
  /\ UNCHANGED <<scriptVars, eslintVars>>

\* A detection that keeps the choice of an earlier call of the tool instead of
\* checking the lockfiles again, for C12.
CheckLockfileMemo ==
  /\ pc = "detecting"
  /\ LET memo == prev.tool = call.tool /\ prev.selected # "none"
         file == IF memo THEN prev.selected ELSE Lockfiles(call.tool)[ruleIdx]
     IN /\ probes' = Append(probes, file)
        /\ IF memo \/ Exists(file, markers)
           THEN /\ infoLog' = infoLog
                /\ spawned' =
                     Append(spawned, SpawnOf(call.tool, file, call.isDev, call.packageName))
                /\ pc' = "running"
                /\ UNCHANGED <<ruleIdx, outcome>>
           ELSE IF ruleIdx = Len(Lockfiles(call.tool))
           THEN /\ pc' = "done"
                /\ outcome' = NotDetectedOutcome(call.tool)
                /\ UNCHANGED <<ruleIdx, infoLog, spawned>>
           ELSE /\ ruleIdx' = ruleIdx + 1
                /\ UNCHANGED <<pc, outcome, infoLog, spawned>>
  /\ UNCHANGED <<markers, call, child, seen, prev>>
  /\ UNCHANGED <<scriptVars, eslintVars>>

\* One `if (await filesystem.exists(...))`: the branch is taken and its command
\* started, or the next lockfile is tried, or the call ends undetected.
CheckLockfile ==
  /\ pc = "detecting"
  /\ LET file == Lockfiles(call.tool)[ruleIdx]
     IN /\ probes' = Append(probes, file)
        /\ IF Exists(file, markers)
           THEN /\ infoLog' =
                     IF call.tool \in InstallTools
                     THEN Append(infoLog, InstallInfo(call.tool, file, call.packageName))
                     ELSE infoLog
                /\ spawned' =
                     Append(spawned, SpawnOf(call.tool, file, call.isDev, call.packageName))
                /\ pc' = "running"
                /\ UNCHANGED <<ruleIdx, outcome>>
           ELSE IF ruleIdx = Len(Lockfiles(call.tool))
           THEN /\ pc' = "done"
                /\ outcome' = NotDetectedOutcome(call.tool)
                /\ UNCHANGED <<ruleIdx, infoLog, spawned>>
           ELSE /\ ruleIdx' = ruleIdx + 1
                /\ UNCHANGED <<pc, outcome, infoLog, spawned>>
  /\ UNCHANGED <<markers, call, child, seen, prev>>
  /\ UNCHANGED <<scriptVars, eslintVars>>

\* A command that, having failed, sends the call on to the next lockfile, for C14.
CommandEndsTryNext(c) ==
  /\ pc = "running"
  /\ child' = c
  /\ IF (c.kind # "exit" \/ c.code # 0) /\ ruleIdx < Len(Lockfiles(call.tool))
     THEN /\ ruleIdx' = ruleIdx + 1
          /\ pc' = "detecting"
          /\ UNCHANGED outcome
     ELSE /\ outcome' = Returned(ResultOf(call.tool, call.packageName, c))
          /\ pc' = "done"
          /\ UNCHANGED ruleIdx
  /\ UNCHANGED <<markers, call, probes, infoLog, spawned, seen, prev>>
  /\ UNCHANGED <<scriptVars, eslintVars>>

\* The awaited command ends and the branch returns its result.
CommandEnds(c) ==
  /\ pc = "running"
  /\ child' = c
  /\ outcome' = Returned(ResultOf(call.tool, call.packageName, c))
  /\ pc' = "done"
  /\ UNCHANGED <<markers, call, ruleIdx, probes, infoLog, spawned, seen, prev>>
  /\ UNCHANGED <<scriptVars, eslintVars>>

\* The caller has taken the outcome; the tool keeps nothing of the call.
Settle ==
  /\ pc = "done"
  /\ pc' = "idle"
  /\ call' = NoCall
  /\ ruleIdx' = 0
  /\ probes' = <<>>
  /\ infoLog' = <<>>
  /\ spawned' = <<>>
  /\ child' = NoChild
  /\ outcome' = Pending
  /\ seen' = {}
  /\ UNCHANGED <<markers, prev>>
  /\ UNCHANGED <<scriptVars, eslintVars>>

\* The same step, with the history of the call that went through detection kept
\* for comparison with later calls.
SettleRemembered ==
  /\ pc = "done"
  /\ probes # <<>>
  /\ prev' = [tool |-> call.tool, markers |-> markers, selected |-> Selected]
  /\ pc' = "idle"
  /\ call' = NoCall
  /\ ruleIdx' = 0
  /\ probes' = <<>>
  /\ infoLog' = <<>>
  /\ spawned' = <<>>
  /\ child' = NoChild
  /\ outcome' = Pending
  /\ seen' = {}
  /\ UNCHANGED markers
  /\ UNCHANGED <<scriptVars, eslintVars>>


\* ------------------------------------------------------------- runJavaScriptScript
\* The versions of the tool: the current one (src/tools/runJavaScriptScript.ts,
\* second half, on TerminalService), the one on execa (first half of the file)
\* and the one on filesystem.executeCommand (part_004).
ScriptTools ==
  {"runJavaScriptScript", "runJavaScriptScript_execa", "runJavaScriptScript_part004"}

ScriptToolName(tool) ==
  IF tool = "runJavaScriptScript" THEN "javascript_runJavaScriptScript"
  ELSE "javascript/runJavaScriptScript"

ScriptPrefix(tool) == "[" \o ScriptToolName(tool) \o "]"

Num(n) == [t |-> "number", n |-> n]

\* `v.name` for a property that holds a string, undefined when v has none.
FieldStr(v, name) == IF name \in DOMAIN v THEN Str(v[name]) ELSE Undefined

\* A parameter with a default: `name = dflt` in the destructuring.
WithDefault(v, dflt) == IF v = Undefined THEN dflt ELSE v

ScriptInputs == {Undefined, Str(<<>>), Str(<<"console.log(1)">>)}

FormatInputs == {Undefined, Str(<<"esm">>), Str(<<"commonjs">>), Str(<<"amd">>)}

TimeoutInputs ==
  {Undefined} \cup {Num(n) : n \in (0 - TimeoutBeyond)..(MaxTimeout + TimeoutBeyond)}

\* randomBytes(4).toString("hex")
HexNames == {"9f86d081"}

\* An input check that leaves the format unchecked, for C23.
ScriptRejectsScriptOnly(script, format) == script = Undefined \/ script.s = <<>>

\* `!script` and the format check, in this order.
ScriptRejects(script, format) ==
  \/ script = Undefined
  \/ script.s = <<>>
  \/ WithDefault(format, Str(<<"esm">>)) \notin {Str(<<"esm">>), Str(<<"commonjs">>)}

ScriptRejectedOutcome(tool, script, format) ==
  IF script = Undefined \/ script.s = <<>>
  THEN Thrown(<<ScriptPrefix(tool), " script is required">>)
  ELSE Thrown(<<ScriptPrefix(tool), " Invalid format: ">> \o format.s
                \o <<". Must be \"esm\" or \"commonjs\"">>)

\* A file name with one extension for both formats, for C22.
TempFileNameMjs(format, hex) == <<"temp-script-", hex, ".mjs">>

\* `temp-script-${hex}${format === "esm" ? ".mjs" : ".cjs"}`
TempFileName(format, hex) ==
  <<"temp-script-", hex, IF format = Str(<<"esm">>) THEN ".mjs" ELSE ".cjs">>

Min(a, b) == IF a <= b THEN a ELSE b

Max(a, b) == IF a >= b THEN a ELSE b

\* A clamp without the `|| 30`, for C17.
ClampTimeoutOfZero(timeoutSeconds) == Max(MinTimeout, Min(timeoutSeconds, MaxTimeout))

\* Math.max(5, Math.min(timeoutSeconds || 30, 300))
ClampTimeout(timeoutSeconds) ==
  Max(MinTimeout,
      Min(IF timeoutSeconds = 0 THEN DefaultTimeout ELSE timeoutSeconds, MaxTimeout))

\* The timeout the node command is started with: seconds for executeCommand,
\* milliseconds (timeout * 1000) for execa.
NodeTimeout(tool, timeoutSeconds) ==
  LET given == WithDefault(timeoutSeconds, Num(DefaultTimeout)).n
  IN IF tool = "runJavaScriptScript_execa"
     THEN [unit |-> "ms", n |-> ClampTimeout(given) * MsPerSecond]
     ELSE [unit |-> "s", n |-> ClampTimeout(given)]

\* The node command of a call.
NodeArgv(tool, format, file) ==
  IF tool = "runJavaScriptScript_execa" /\ format = Str(<<"esm">>)
  THEN <<(<<"node">>), (<<"--input-type=module">>), file>>
  ELSE <<(<<"node">>), file>>

ScriptInfo(tool, format) ==
  <<ScriptPrefix(tool), " Running JavaScript script in ">> \o format.s \o <<" format">>

\* How the node command ends: as a child process does, or with the command
\* service itself raising an error.
NodeOutcomes ==
  ChildOutcomes
    \cup {[kind |-> "raised", code |-> 0, stdout |-> <<>>, stderr |-> <<"service down">>]}

\* execa rejects unless the process exits with 0; err.shortMessage.
ExecaShortMessage(c) ==
  CASE c.kind = "exit" -> <<"Command failed with exit code ", ToString(c.code)>>
    [] c.kind = "timeout" -> <<"Command timed out">>
    [] OTHER -> <<"Command failed with ">> \o c.stderr

\* A result whose ok is true whatever the command's status, for C18.
TerminalScriptDataAlwaysOk(result, format) ==
  [ok |-> TRUE,
   output |-> IF result.status \in {"success", "badExitCode"} THEN Str(result.output)
              ELSE IF result.status = "unknownError" THEN Str(result.error)
              ELSE Str(<<"Timeout">>),
   exitCode |-> IF result.status = "badExitCode" THEN Num(result.exitCode) ELSE Num(0),
   format |-> format]

\* The `data` of the current version's result.
TerminalScriptData(result, format) ==
  [ok |-> result.status = "success",
   output |-> IF result.status \in {"success", "badExitCode"} THEN Str(result.output)
              ELSE IF result.status = "unknownError" THEN Str(result.error)
              ELSE Str(<<"Timeout">>),
   exitCode |-> IF result.status = "badExitCode" THEN Num(result.exitCode) ELSE Num(0),
   format |-> format]

\* `x?.trim() || ""`
TrimOrEmpty(v) == IF v = Undefined THEN Str(<<>>) ELSE Str(Trim(v.s))

\* What the try block of a call ends with once its command has ended as c.
ScriptHeld(tool, format, c) ==
  CASE c.kind = "raised" ->
         IF tool = "runJavaScriptScript_execa"
         THEN Thrown(<<ScriptPrefix(tool), " ">> \o c.stderr)
         ELSE Thrown(c.stderr)
    [] c.kind # "raised" /\ tool = "runJavaScriptScript" ->
         Returned([t |-> "object", type |-> "json",
                   data |-> TerminalScriptData(TerminalResult(c), format)])
    [] c.kind # "raised" /\ tool = "runJavaScriptScript_execa" ->
         IF c.kind = "exit" /\ c.code = 0
         THEN Returned([t |-> "object", ok |-> TRUE, exitCode |-> Num(c.code),
                        stdout |-> TrimOrEmpty(Str(c.stdout)),
                        stderr |-> TrimOrEmpty(Str(c.stderr)), format |-> format])
         ELSE Thrown(<<ScriptPrefix(tool), " ">> \o ExecaShortMessage(c))
    [] OTHER ->
         LET result == ShellResult(c)
         IN Returned([t |-> "object", ok |-> TRUE,
                      exitCode |-> IF "exitCode" \in DOMAIN result
                                   THEN Num(result.exitCode) ELSE Undefined,
                      stdout |-> TrimOrEmpty(FieldStr(result, "stdout")),
                      stderr |-> TrimOrEmpty(FieldStr(result, "stderr")),
                      format |-> format])

\* What the try block ends with when the write of the temporary file fails.
WriteFailed(tool) ==
  IF tool = "runJavaScriptScript_execa"
  THEN Thrown(<<ScriptPrefix(tool), " ", "EACCES: permission denied">>)
  ELSE Thrown(<<"EACCES: permission denied">>)

NoScriptCall ==
  [tool |-> "none", script |-> Undefined, format |-> Undefined,
   timeoutSeconds |-> Undefined]

ScriptInit ==
  /\ spc = "idle"
  /\ scall = NoScriptCall
  /\ tempFile = <<>>
  /\ workdir = {}
  /\ steps = <<>>
  /\ node = NoChild
  /\ held = Pending
  /\ soutcome = Pending

\* The format of the call: `format = "esm"` in the destructuring.
Format == WithDefault(scall.format, Str(<<"esm">>))

\* execute(...) up to its first await: the input checks and the file name.
ScriptExecute(tool, script, format, timeoutSeconds, hex) ==
  /\ spc = "idle"
  /\ scall' = [tool |-> tool, script |-> script, format |-> format,
               timeoutSeconds |-> timeoutSeconds]
  /\ IF ScriptRejects(script, format)
     THEN /\ spc' = "done"
          /\ soutcome' = ScriptRejectedOutcome(tool, script, format)
          /\ UNCHANGED tempFile
     ELSE /\ spc' = "writing"
          /\ tempFile' = TempFileName(WithDefault(format, Str(<<"esm">>)), hex)
          /\ UNCHANGED soutcome
  /\ UNCHANGED <<workdir, steps, node, held>>
  /\ UNCHANGED <<packageVars, eslintVars>>

\* The awaited writeFile ends.  Written: the timeout is clamped, the info line
\* sent and the node command started.  Failed: the try block is left.
WriteTemp(written) ==
  /\ spc = "writing"
  /\ LET write == [op |-> "write", file |-> tempFile, content |-> scall.script.s]
     IN IF written
        THEN /\ workdir' = {f \in workdir : f.name # tempFile}
                             \cup {[name |-> tempFile, content |-> scall.script.s]}
             /\ steps' = steps \o
                  <<write,
                    [op |-> "info", text |-> ScriptInfo(scall.tool, Format)],
                    [op |-> "run",
                     argv |-> NodeArgv(scall.tool, Format, tempFile),
                     timeout |-> NodeTimeout(scall.tool, scall.timeoutSeconds)]>>
             /\ spc' = "running"
             /\ UNCHANGED held
        ELSE /\ steps' = Append(steps, write)
             /\ held' = WriteFailed(scall.tool)
             /\ spc' = "deleting"
             /\ UNCHANGED workdir
  /\ UNCHANGED <<scall, tempFile, node, soutcome>>
  /\ UNCHANGED <<packageVars, eslintVars>>

\* The awaited node command ends as c; the try block is left.
NodeEnds(c) ==
  /\ spc = "running"
  /\ node' = c
  /\ held' = ScriptHeld(scall.tool, Format, c)
  /\ spc' = "deleting"
  /\ UNCHANGED <<scall, tempFile, workdir, steps, soutcome>>
  /\ UNCHANGED <<packageVars, eslintVars>>

\* A cleanup placed after the try block instead of in `finally`: it is left out
\* when the try block has thrown, for C16.
DeleteTempAfterReturn(deleted) ==
  /\ spc = "deleting"
  /\ IF held.kind = "returned"
     THEN /\ steps' =
               Append(steps, [op |-> "delete", file |-> tempFile, failed |-> ~deleted])
          /\ workdir' = IF deleted THEN {f \in workdir : f.name # tempFile} ELSE workdir
          /\ soutcome' =
               IF deleted \/ scall.tool = "runJavaScriptScript_execa" THEN held
               ELSE Thrown(<<"EBUSY: resource busy or locked">>)
     ELSE /\ soutcome' = held
          /\ UNCHANGED <<steps, workdir>>
  /\ spc' = "done"
  /\ UNCHANGED <<scall, tempFile, node, held>>
  /\ UNCHANGED <<packageVars, eslintVars>>

\* `finally`: the delete of the temporary file, which removes it or fails.  The
\* current version and part_004 await filesystem.deleteFile, whose error takes
\* the place of what the try block ended with; the execa version runs `rm -f`
\* and swallows its error.
DeleteTemp(deleted) ==
  /\ spc = "deleting"
  /\ steps' = Append(steps, [op |-> "delete", file |-> tempFile, failed |-> ~deleted])
  /\ workdir' = IF deleted THEN {f \in workdir : f.name # tempFile} ELSE workdir
  /\ soutcome' =
       IF deleted \/ scall.tool = "runJavaScriptScript_execa" THEN held
       ELSE Thrown(<<"EBUSY: resource busy or locked">>)
  /\ spc' = "done"
  /\ UNCHANGED <<scall, tempFile, node, held>>
  /\ UNCHANGED <<packageVars, eslintVars>>

\* The caller has taken the outcome; the files of the working directory stay.
ScriptSettle ==
  /\ spc = "done"
  /\ spc' = "idle"
  /\ scall' = NoScriptCall
  /\ tempFile' = <<>>
  /\ steps' = <<>>
  /\ node' = NoChild
  /\ held' = Pending
  /\ soutcome' = Pending
  /\ UNCHANGED workdir
  /\ UNCHANGED <<packageVars, eslintVars>>

\* ------------------------------------------------------------- eslint
\* The versions of the tool: the current one (src/tools/eslint.ts, which throws
\* when the run as a whole fails) and part_003 (which returns {error} then).
EslintTools == {"eslint", "eslint_part003"}

Arr(items) == [t |-> "array", items |-> items]

\* The project root, the files in it and the paths the tool is given: relative
\* to the root or absolute.
Root == "/repo/"

FileNames == {"a.js", "b.js"}

PathInputs == {<<"a.js">>, <<"b.js">>, <<Root, "a.js">>}

FilesInputs == {Undefined} \cup {Arr(l) : l \in UNION {[1..n -> PathInputs] : n \in 0..MaxFiles}}

\* filesystem.relativeOrAbsolutePathToAbsolutePath / ...ToRelativePath
ToAbsolutePath(path) == IF path[1] = Root THEN path ELSE <<Root>> \o path

ToRelativePath(path) == IF path[1] = Root THEN Tail(path) ELSE path

\* relFile: the current version converts the absolute path back, part_003
\* resolves it.
RelFile(tool, path) ==
  IF tool = "eslint" THEN ToRelativePath(ToAbsolutePath(path)) ELSE ToAbsolutePath(path)

\* The file a path names.
FileOf(path) == ToRelativePath(path)[1]

\* The contents a source file has, before and after a fix.
Messy == <<"var a=1">>

Tidy == <<"const a = 1;">>

\* What eslint.lintText gives: it throws, it gives no result (an ignored file),
\* or a result whose output is absent, empty, or a text.
LintOutcomes ==
  {[kind |-> "throws", output |-> Undefined], [kind |-> "empty", output |-> Undefined]}
    \cup {[kind |-> "result", output |-> o] : o \in {Undefined, Str(<<>>), Str(Messy), Str(Tidy)}}

\* A test that takes any non-empty output for a fix, for C19.
NeedsWriteAnyOutput(output, src) == output # Undefined /\ output.s # <<>>

\* `result.output && result.output !== source`
NeedsWrite(output, src) == output # Undefined /\ output.s # <<>> /\ output.s # src

InfoLine(tool, fixedIt, rel) ==
  [level |-> "info",
   text |-> CASE tool = "eslint" /\ fixedIt -> <<"[javascript/eslint]", " Applied ESLint fixes on ">> \o rel
              [] tool = "eslint" /\ ~fixedIt -> <<"[javascript/eslint]", " No changes needed for ">> \o rel
              [] tool # "eslint" /\ fixedIt -> <<"Applied ESLint fixes on ">> \o rel
              [] OTHER -> <<"[INFO] No changes needed for ">> \o rel]

ErrorLine(tool, rel, msg) ==
  [level |-> "error",
   text |-> (IF tool = "eslint" THEN <<"[javascript/eslint]", " ESLint fix on ">>
             ELSE <<"[ERROR] ESLint fix on ">>) \o rel \o <<": ">> \o msg]

LineFailure == <<"write EPIPE">>

NoEslintCall == [tool |-> "none", files |-> Undefined]

EslintInit ==
  /\ epc = "idle"
  /\ ecall = NoEslintCall
  /\ disk = [f \in FileNames |-> Messy]
  /\ fileIdx = 0
  /\ source = <<>>
  /\ fixed = Undefined
  /\ results = <<>>
  /\ lints = <<>>
  /\ writes = <<>>
  /\ dirty = <<>>
  /\ lines = <<>>
  /\ faults = <<>>
  /\ eoutcome = Pending

\* The path the loop is at, and the name its entries carry.
CurrentPath == ecall.files.items[fileIdx]

CurrentRel == RelFile(ecall.tool, CurrentPath)

\* The outer catch: the current version throws, part_003 returns {error}.
RunFailed(tool, msg) ==
  IF tool = "eslint"
  THEN Thrown(<<"[javascript/eslint]", " Failed to run ESLint: ">> \o msg)
  ELSE Returned(ErrorObject(<<"Failed to run ESLint: ">> \o msg))

\* The end of one pass of the loop with `res` and `lns` as the array and the
\* lines so far: the next file, or `return results`.
NextFile(res, lns) ==
  /\ results' = res
  /\ lines' = lns
  /\ source' = <<>>
  /\ fixed' = Undefined
  /\ IF fileIdx = Len(ecall.files.items)
     THEN /\ epc' = "done"
          /\ eoutcome' = Returned(Arr(res))
          /\ UNCHANGED fileIdx
     ELSE /\ epc' = "reading"
          /\ fileIdx' = fileIdx + 1
          /\ UNCHANGED eoutcome

\* An error thrown out of the loop reaches the outer catch.
OuterCatch(res, lns, msg) ==
  /\ results' = res
  /\ lines' = lns
  /\ source' = <<>>
  /\ fixed' = Undefined
  /\ epc' = "done"
  /\ eoutcome' = RunFailed(ecall.tool, msg)
  /\ UNCHANGED fileIdx

\* A failed call of the tool, at the file the loop is at (0: before the loop).
Fault(op) == [idx |-> fileIdx, op |-> op]

LogFaults(logged) == IF logged THEN <<>> ELSE <<Fault("log")>>

\* A loop without the inner catch: the error of one file leaves the loop, for C24.
InnerCatchLeavesLoop(res, lns, msg, errorLogged) == OuterCatch(res, lns, msg)

\* The inner catch: an error entry is pushed and errorLine called; an error of
\* errorLine leaves the loop.
InnerCatch(res, lns, msg, errorLogged) ==
  LET entry == [file |-> CurrentRel, error |-> msg]
  IN IF errorLogged
     THEN NextFile(Append(res, entry), Append(lns, ErrorLine(ecall.tool, CurrentRel, msg)))
     ELSE OuterCatch(Append(res, entry), lns, LineFailure)

\* execute(...) up to the first await of the loop: `new ESLint(...)`, which
\* starts or throws, and the files list.  Without a list the current version
\* takes the empty list; part_003 iterates over undefined.
EslintExecute(tool, files, started) ==
  /\ epc = "idle"
  /\ ecall' = [tool |-> tool, files |-> files]
  /\ faults' = IF started THEN faults ELSE Append(faults, [idx |-> 0, op |-> "start"])
  /\ IF ~started
     THEN /\ epc' = "done"
          /\ eoutcome' = RunFailed(tool, <<"Cannot find ESLint configuration">>)
          /\ UNCHANGED fileIdx
     ELSE IF files = Undefined /\ tool # "eslint"
     THEN /\ epc' = "done"
          /\ eoutcome' = RunFailed(tool, <<"files is not iterable">>)
          /\ UNCHANGED fileIdx
     ELSE IF files = Undefined \/ files.items = <<>>
     THEN /\ epc' = "done"
          /\ eoutcome' = Returned(Arr(<<>>))
          /\ UNCHANGED fileIdx
     ELSE /\ epc' = "reading"
          /\ fileIdx' = 1
          /\ UNCHANGED eoutcome
  /\ UNCHANGED <<disk, source, fixed, results, lints, writes, dirty, lines>>
  /\ UNCHANGED <<packageVars, scriptVars>>

\* The awaited readFile ends.
ReadEnds(read, errorLogged) ==
  /\ epc = "reading"
  /\ IF read
     THEN /\ source' = disk[FileOf(CurrentPath)]
          /\ epc' = "linting"
          /\ UNCHANGED <<fileIdx, fixed, results, lines, eoutcome>>
     ELSE InnerCatch(results, lines, <<"ENOENT: no such file">>, errorLogged)
  /\ faults' = IF read THEN faults
               ELSE faults \o <<Fault("read")>> \o LogFaults(errorLogged)
  /\ UNCHANGED <<ecall, disk, lints, writes, dirty>>
  /\ UNCHANGED <<packageVars, scriptVars>>

\* The awaited lintText ends.  A fix is written back (next await); otherwise the
\* entry is pushed and the info line sent.
LintEnds(lint, infoLogged, errorLogged) ==
  /\ epc = "linting"
  /\ lints' = Append(lints, [file |-> FileOf(CurrentPath), source |-> source,
                             kind |-> lint.kind, output |-> lint.output])
  /\ CASE lint.kind = "throws" ->
            InnerCatch(results, lines, <<"Parsing error">>, errorLogged)
       [] lint.kind = "empty" ->
            InnerCatch(results, lines, <<"Cannot read properties of undefined">>,
                       errorLogged)
       [] lint.kind = "result" /\ NeedsWrite(lint.output, source) ->
            /\ fixed' = lint.output
            /\ epc' = "writing"
            /\ UNCHANGED <<fileIdx, source, results, lines, eoutcome>>
       [] OTHER ->
            LET res == Append(results, [file |-> CurrentRel, output |-> "No changes needed"])
            IN IF infoLogged
               THEN NextFile(res, Append(lines, InfoLine(ecall.tool, FALSE, CurrentRel)))
               ELSE InnerCatch(res, lines, LineFailure, errorLogged)
  /\ faults' =
       CASE lint.kind \in {"throws", "empty"} ->
              faults \o <<Fault("lint")>> \o LogFaults(errorLogged)
         [] lint.kind = "result" /\ NeedsWrite(lint.output, source) -> faults
         [] OTHER ->
              IF infoLogged THEN faults
              ELSE faults \o <<Fault("log")>> \o LogFaults(errorLogged)
  /\ UNCHANGED <<ecall, disk, writes, dirty>>
  /\ UNCHANGED <<packageVars, scriptVars>>

\* The awaited writeFile ends.  Written: the entry is pushed, the info line sent
\* and the filesystem marked dirty.
WriteEnds(written, infoLogged, errorLogged) ==
  /\ epc = "writing"
  /\ writes' = Append(writes, [file |-> FileOf(CurrentPath), content |-> fixed.s,
                               written |-> written])
  /\ disk' = IF written THEN [disk EXCEPT ![FileOf(CurrentPath)] = fixed.s] ELSE disk
  /\ IF ~written
     THEN /\ InnerCatch(results, lines, <<"EACCES: permission denied">>, errorLogged)
          /\ UNCHANGED dirty
     ELSE LET res == Append(results, [file |-> CurrentRel, output |-> "Successfully fixed"])
          IN IF infoLogged
             THEN /\ NextFile(res, Append(lines, InfoLine(ecall.tool, TRUE, CurrentRel)))
                  /\ dirty' = Append(dirty, TRUE)
             ELSE /\ InnerCatch(res, lines, LineFailure, errorLogged)
                  /\ UNCHANGED dirty
  /\ faults' =
       IF ~written THEN faults \o <<Fault("write")>> \o LogFaults(errorLogged)
       ELSE IF infoLogged THEN faults
       ELSE faults \o <<Fault("log")>> \o LogFaults(errorLogged)
  /\ UNCHANGED <<ecall, lints>>
  /\ UNCHANGED <<packageVars, scriptVars>>

\* The caller has taken the outcome; the files stay as they are.
EslintSettle ==
  /\ epc = "done"
  /\ epc' = "idle"
  /\ ecall' = NoEslintCall
  /\ fileIdx' = 0
  /\ source' = <<>>
  /\ fixed' = Undefined
  /\ results' = <<>>
  /\ lints' = <<>>
  /\ writes' = <<>>
  /\ dirty' = <<>>
  /\ lines' = <<>>
  /\ faults' = <<>>
  /\ eoutcome' = Pending
  /\ UNCHANGED disk
  /\ UNCHANGED <<packageVars, scriptVars>>

\* ------------------------------------------------------------- specifications
Init == PackageInit /\ ScriptInit /\ EslintInit

\* The package tools, one call at a time, the lockfiles changing between calls.
Next ==
  \/ \E file \in MarkerFiles : pc = "idle" /\ CreateMarker(file)
  \/ \E file \in MarkerFiles : pc = "idle" /\ DeleteMarker(file)
  \/ \E tool \in InstallTools, packageName \in PackageNameInputs, isDev \in BOOLEAN,
        timeout \in CallTimeouts :
       Execute(tool, packageName, isDev, timeout)
  \/ \E tool \in RemoveTools, packageName \in PackageNameInputs, timeout \in CallTimeouts :
       Execute(tool, packageName, FALSE, timeout)
  \/ CheckLockfile
  \/ \E c \in ChildOutcomes : CommandEnds(c)
  \/ Settle

Spec == Init /\ [][Next]_vars

\* The current package tools with the history of an earlier call kept.
NextHistory ==
  \/ \E file \in MarkerFiles : pc = "idle" /\ CreateMarker(file)
  \/ \E file \in MarkerFiles : pc = "idle" /\ DeleteMarker(file)
  \/ \E tool \in CurrentTools, packageName \in PackageNameInputs :
       Execute(tool, packageName, FALSE, NoTimeout)
  \/ CheckLockfile
  \/ \E c \in ChildOutcomes : CommandEnds(c)
  \/ Settle
  \/ SettleRemembered

SpecHistory == Init /\ [][NextHistory]_vars

\* The current package tools with lockfiles created and deleted by others while
\* a call makes its existence checks.
NextRace ==
  \/ \E file \in MarkerFiles :
       /\ pc = "idle" \/ (pc = "detecting" /\ Cardinality(seen) <= MaxRaces)
       /\ CreateMarker(file)
  \/ \E file \in MarkerFiles :
       /\ pc = "idle" \/ (pc = "detecting" /\ Cardinality(seen) <= MaxRaces)
       /\ DeleteMarker(file)
  \/ \E tool \in CurrentTools : Execute(tool, <<"left-pad">>, FALSE, NoTimeout)
  \/ CheckLockfile
  \/ \E c \in ChildOutcomes : CommandEnds(c)
  \/ Settle

SpecRace == Init /\ [][NextRace]_vars

\* runJavaScriptScript, one call at a time.
NextScript ==
  \/ /\ spc = "idle"
     /\ \E tool \in ScriptTools, script \in ScriptInputs, format \in FormatInputs,
           timeoutSeconds \in TimeoutInputs, hex \in HexNames :
          ScriptExecute(tool, script, format, timeoutSeconds, hex)
  \/ \E written \in BOOLEAN : WriteTemp(written)
  \/ \E c \in NodeOutcomes : NodeEnds(c)
  \/ \E deleted \in BOOLEAN : DeleteTemp(deleted)
  \/ ScriptSettle

SpecScript == Init /\ [][NextScript]_vars

\* eslint, one call at a time.
NextEslint ==
  \/ \E tool \in EslintTools, files \in FilesInputs, started \in BOOLEAN :
       EslintExecute(tool, files, started)
  \/ \E read \in BOOLEAN, errorLogged \in BOOLEAN : ReadEnds(read, errorLogged)
  \/ \E lint \in LintOutcomes, infoLogged \in BOOLEAN, errorLogged \in BOOLEAN :
       LintEnds(lint, infoLogged, errorLogged)
  \/ \E written \in BOOLEAN, infoLogged \in BOOLEAN, errorLogged \in BOOLEAN :
       WriteEnds(written, infoLogged, errorLogged)
  \/ EslintSettle

SpecEslint == Init /\ [][NextEslint]_vars

\* ------------------------------------------------------------- what the claims speak of
\* The declared priority of the marker files, highest first.
Priority == <<"bun.lock", "pnpm-lock.yaml", "yarn.lock", "package-lock.json">>

ManagerOf(file) ==
  CASE file = "bun.lock" -> "bun"
    [] file = "pnpm-lock.yaml" -> "pnpm"
    [] file = "yarn.lock" -> "yarn"
    [] file = "package-lock.json" -> "npm"

\* The highest-priority marker of a non-empty set of markers.
HighestMarker(present) ==
  Priority[CHOOSE i \in 1..Len(Priority) :
             /\ Priority[i] \in present
             /\ \A j \in 1..(i - 1) : Priority[j] \notin present]

\* The package names a packageName input holds: its blank-separated parts.
RECURSIVE Names(_)
Names(s) ==
  LET t == TrimStart(s)
      blanks == {i \in 1..Len(t) : t[i] = Blank}
      stop == IF blanks = {} THEN Len(t) + 1
              ELSE CHOOSE i \in blanks : \A j \in blanks : i <= j
  IN IF t = <<>> THEN <<>>
     ELSE <<SubSeq(t, 1, stop - 1)>> \o Names(SubSeq(t, stop, Len(t)))

\* The strings of `parts` with `sep` between them.
RECURSIVE Join(_, _)
Join(parts, sep) ==
  IF parts = <<>> THEN <<>>
  ELSE IF Len(parts) = 1 THEN parts[1]
  ELSE parts[1] \o sep \o Join(Tail(parts), sep)

\* The command line a started process runs: the command string given to the shell, or
\* the executable and its arguments separated by blanks.
CommandLine(p) == IF p.shell THEN p.argv[1] ELSE Join(p.argv, <<Blank>>)

\* The executable a started process runs: the first word of its command line.
ManagerRun(p) == CommandLine(p)[1]

\* The command templates of the interface table.
InstallTemplate(manager, isDev) ==
  CASE manager = "bun" -> <<"bun", Blank, "add">> \o (IF isDev THEN <<Blank, "-d">> ELSE <<>>)
    [] manager = "pnpm" -> <<"pnpm", Blank, "add">> \o (IF isDev THEN <<Blank, "-D">> ELSE <<>>)
    [] manager = "yarn" ->
         <<"yarn", Blank, "add">> \o (IF isDev THEN <<Blank, "--dev">> ELSE <<>>)
    [] manager = "npm" ->
         <<"npm", Blank, "install">> \o (IF isDev THEN <<Blank, "--save-dev">> ELSE <<>>)

RemoveTemplate(manager) ==
  CASE manager = "bun" -> <<"bun", Blank, "remove">>
    [] manager = "pnpm" -> <<"pnpm", Blank, "remove">>
    [] manager = "yarn" -> <<"yarn", Blank, "remove">>
    [] manager = "npm" -> <<"npm", Blank, "uninstall">>

Mentions(msg, fragments) == \E i \in DOMAIN msg : msg[i] \in fragments

IsManagerNotDetected(msg) ==
  Mentions(msg, {" No supported package manager lock file found",
                 " unable to detect package manager"})

IsInvalidArgument(msg) ==
  Mentions(msg, {" packageName is required", " package name must be provided."})

\* A call of a current tool that names at least one package, past its input check.
Dispatching ==
  /\ pc \in {"running", "done"}
  /\ call.tool \in CurrentTools
  /\ Names(call.packageName) # <<>>

\* ------------------------------------------------------------- claims
\* C1: with two or more marker files present, installPackages and removePackages
\* both run the manager of the highest-priority marker (bun > pnpm > yarn > npm).
\* installPackages never looks for bun.lock, so this fails: with bun.lock and
\* pnpm-lock.yaml present it runs pnpm.
C1_HighestPriorityMarkerWins ==
  (Dispatching /\ Cardinality(markers) >= 2) =>
    /\ Len(spawned) = 1
    /\ ManagerRun(spawned[1]) = ManagerOf(HighestMarker(markers))

\* C2: with exactly one marker file present, installPackages and removePackages
\* both run the manager of that marker.  Fails for installPackages with only
\* bun.lock present: it throws, having started nothing.
C2_SingleMarkerDetected ==
  (Dispatching /\ Cardinality(markers) = 1) =>
    /\ Len(spawned) = 1
    /\ \A file \in markers : ManagerRun(spawned[1]) = ManagerOf(file)

\* C3: with none of the four marker files present, a call of the current
\* installPackages / removePackages never starts a process and ends with a thrown
\* error, which is the manager-not-detected error whenever the input names a package.
C3_NoMarkerNoSpawn ==
  (pc # "idle" /\ call.tool \in CurrentTools /\ markers = {}) =>
    /\ spawned = <<>>
    /\ pc # "running"
    /\ pc = "done" =>
         /\ outcome.kind = "thrown"
         /\ Names(call.packageName) # <<>> => IsManagerNotDetected(outcome.value.message)

C3_Witness ==
  /\ pc = "done"
  /\ call.tool = "removePackages"
  /\ markers = {}
  /\ Names(call.packageName) = <<(<<"left-pad">>)>>
  /\ probes = RemoveLockfiles
  /\ outcome.kind = "thrown"

\* C4: in every version of the install and remove tools, a call that ends while no
\* lockfile exists ends with a thrown error or with an error object, never with
\* undefined or a normal result.  Fails for the part_002 removePackages, which
\* falls off its last `if` and returns undefined.
C4_NoLockfileIsSignalled ==
  (pc = "done" /\ call.tool \in Tools /\ markers = {}) =>
    \/ outcome.kind = "thrown"
    \/ /\ outcome.kind = "returned"
       /\ outcome.value.t = "object"
       /\ "error" \in DOMAIN outcome.value

\* C5: every process a current tool starts gets each package name of the input as
\* an argument of its own, and no shell command string.  Fails: installPackages
\* hands bash one interpolated string, removePackages passes the whole input as
\* one argument.
C5_EachNameItsOwnArgument ==
  \A i \in DOMAIN spawned :
    (call.tool \in CurrentTools /\ Names(call.packageName) # <<>>) =>
      LET names == Names(call.packageName)
          argv == spawned[i].argv
      IN /\ ~spawned[i].shell
         /\ Len(argv) > Len(names)
         /\ SubSeq(argv, Len(argv) - Len(names) + 1, Len(argv)) = names

\* C6: whatever marker files are present, a call of the current installPackages /
\* removePackages with the empty packageName ends at once with a thrown
\* invalid-argument error: no existence check was made and no process started.
C6_EmptyInputRejectedFirst ==
  (pc # "idle" /\ call.tool \in CurrentTools /\ call.packageName = <<>>) =>
    /\ pc = "done"
    /\ outcome.kind = "thrown"
    /\ IsInvalidArgument(outcome.value.message)
    /\ probes = <<>>
    /\ spawned = <<>>

C6_Witness ==
  /\ pc = "done"
  /\ call.tool = "installPackages"
  /\ call.packageName = <<>>
  /\ markers = MarkerFiles
  /\ outcome.kind = "thrown"
  /\ probes = <<>>

\* C7: removePackages runs the Remove template of the detected manager followed by
\* the package names: bun remove, pnpm remove, yarn remove, npm uninstall.  Fails
\* for npm: the current removePackages runs `npm remove`.
C7_RemoveTemplateRun ==
  (Dispatching /\ call.tool = "removePackages" /\ markers # {}) =>
    /\ Len(spawned) = 1
    /\ CommandLine(spawned[1]) =
         RemoveTemplate(ManagerOf(HighestMarker(markers))) \o <<Blank>> \o call.packageName

\* C8: installPackages runs the Install / InstallDev template of the detected
\* manager, for each of the four managers, followed by the package names, and
\* tells the agent which manager it uses.  Fails for bun, which installPackages
\* never detects (see C1, C2).
C8_InstallTemplateRun ==
  (Dispatching /\ call.tool = "installPackages" /\ markers # {}) =>
    LET manager == ManagerOf(HighestMarker(markers))
    IN /\ Len(spawned) = 1
       /\ CommandLine(spawned[1]) =
            InstallTemplate(manager, call.isDev) \o <<Blank>> \o call.packageName
       /\ Len(infoLog) = 1
       /\ Mentions(infoLog[1], {manager})

\* C9: when the started process exits with a non-zero code, the call returns (it
\* does not throw) a result that says it failed and carries the exit code and the
\* error output.  Fails for removePackages, which returns a text without the
\* exit code.
C9_NonZeroExitReported ==
  (pc = "done" /\ call.tool \in CurrentTools /\ child.kind = "exit" /\ child.code # 0) =>
    /\ outcome.kind = "returned"
    /\ LET v == outcome.value
       IN /\ {"ok", "exitCode", "stderr"} \subseteq DOMAIN v
          /\ v.ok = FALSE
          /\ v.exitCode = child.code
          /\ v.stderr = child.stderr

SnapshotChoice(tool, present) ==
  LET files == Lockfiles(tool)
      found == {i \in DOMAIN files : files[i] \in present}
  IN IF found = {} THEN "none"
     ELSE files[CHOOSE i \in found : \A j \in found : i <= j]

\* A call of a current tool whose detection has come to its end.
Detected ==
  /\ call.tool \in CurrentTools
  /\ probes # <<>>
  /\ spawned # <<>> \/ pc = "done"

\* C11: a package-manager call takes an optional timeout: the process of a call
\* that was given one is started with it, and when the process outlives its
\* timeout the call returns, without throwing, a result that says failure, holds
\* no exit code and names the timeout in its error output.
C11_TimeoutHonoured ==
  Dispatching =>
    /\ \A i \in DOMAIN spawned : spawned[i].timeout = call.timeout
    /\ (pc = "done" /\ child.kind = "timeout") =>
         /\ outcome.kind = "returned"
         /\ "ok" \in DOMAIN outcome.value
         /\ outcome.value.ok = FALSE
         /\ "exitCode" \notin DOMAIN outcome.value
         /\ "error" \in DOMAIN outcome.value
         /\ Mentions(outcome.value.error, {"Timeout"})

\* C12: detection keeps nothing between calls: a call of a tool that runs against
\* the marker files an earlier call of the tool ran against selects what that
\* call selected, and what a call selects is a lockfile present at the call (or
\* nothing, with none of the tool's lockfiles present), whatever earlier calls
\* found.
C12_DetectionStateless ==
  Detected =>
    /\ (prev.tool = call.tool /\ prev.markers = markers) => Selected = prev.selected
    /\ Selected # "none" => Selected \in markers
    /\ Selected = "none" =>
         \A i \in DOMAIN Lockfiles(call.tool) : Lockfiles(call.tool)[i] \notin markers

C12_Witness ==
  /\ Detected
  /\ pc = "done"
  /\ prev.tool = call.tool
  /\ prev.markers = markers
  /\ Selected # "none"

\* C13: with lockfiles created and deleted while a call makes its existence
\* checks, what the call selects (a manager, or none) is what one of the
\* directory contents of the call's duration gives.
C13_OutcomeOfOneSnapshot ==
  Detected => \E present \in seen : SnapshotChoice(call.tool, present) = Selected

\* C14: a call of installPackages / removePackages starts at most one process,
\* exactly one once its input is accepted and a lockfile of the tool is found,
\* returns only after that process has ended, and after a failed command neither
\* runs it again nor checks a further lockfile.
C14_OneProcessPerCall ==
  call.tool \in CurrentTools =>
    /\ Len(spawned) <= 1
    /\ (Detected /\ SnapshotChoice(call.tool, markers) # "none") => Len(spawned) = 1
    /\ spawned # <<>> =>
         /\ pc \in {"running", "done"}
         /\ pc = "running" <=> child = NoChild
         /\ pc = "running" => outcome = Pending
         /\ probes[Len(probes)] = SnapshotChoice(call.tool, markers)
    /\ spawned = <<>> => child = NoChild

C14_Witness ==
  /\ call.tool \in CurrentTools
  /\ pc = "done"
  /\ Len(spawned) = 1
  /\ child.kind = "exit"
  /\ child.code # 0
  /\ Cardinality(markers) > 1

\* C15: the manager-not-detected error of installPackages and removePackages
\* names all four marker files in its message.
C15_NotDetectedNamesMarkers ==
  (/\ pc = "done"
   /\ call.tool \in CurrentTools
   /\ outcome.kind = "thrown"
   /\ IsManagerNotDetected(outcome.value.message))
    => \A file \in MarkerFiles : Mentions(outcome.value.message, {file})

\* The writes, commands and deletes among the steps of a runJavaScriptScript call.
RECURSIVE FileSteps(_)
FileSteps(s) ==
  IF s = <<>> THEN <<>>
  ELSE IF s[1].op = "info" THEN FileSteps(Tail(s))
  ELSE <<s[1].op>> \o FileSteps(Tail(s))

\* A runJavaScriptScript call that passed its input checks has ended.
ScriptCallEnded == spc = "done" /\ tempFile # <<>>

\* C16 as it stands: once a runJavaScriptScript call that passed its input checks
\* has returned or thrown, its temporary file does not exist; its steps are the
\* write, the node command, the delete, in this order, with exactly one delete.
C16_TempFileGone ==
  ScriptCallEnded =>
    /\ \A f \in workdir : f.name # tempFile
    /\ FileSteps(steps) \in {<<"write", "run", "delete">>, <<"write", "delete">>}

\* C16, amended: once such a call has returned or thrown, its steps are the write,
\* the node command (unless the write failed), the delete, in this order, with
\* exactly one delete; the node command ran on the file written, the delete names
\* it, and the file does not exist unless that delete failed.
C16_TempFileDeletedOnce ==
  ScriptCallEnded =>
    /\ soutcome # Pending
    /\ FileSteps(steps) \in {<<"write", "run", "delete">>, <<"write", "delete">>}
    /\ steps[1].file = tempFile
    /\ \A i \in DOMAIN steps :
         /\ steps[i].op = "run" => steps[i].argv[Len(steps[i].argv)] = tempFile
         /\ steps[i].op = "delete" =>
              /\ steps[i].file = tempFile
              /\ steps[i].failed \/ \A f \in workdir : f.name # tempFile

C16_Witness ==
  /\ ScriptCallEnded
  /\ node.kind = "timeout"
  /\ \A f \in workdir : f.name # tempFile

\* The seconds the node command of the call was given as its timeout.
RunSeconds(step) ==
  IF step.timeout.unit = "ms" THEN step.timeout.n \div 1000 ELSE step.timeout.n

\* C17: the timeout the node command is given is the timeoutSeconds of the call
\* clamped to 5..300: 5 for values below 5, negative ones too, 300 for values
\* above 300, the value itself in between, and 30 for 0 and for no value.
C17_TimeoutClamped ==
  \A i \in DOMAIN steps :
    steps[i].op = "run" =>
      LET given == scall.timeoutSeconds
          passed == RunSeconds(steps[i])
      IN /\ steps[i].timeout.unit = "ms" => steps[i].timeout.n % 1000 = 0
         /\ given = Undefined => passed = 30
         /\ given # Undefined =>
              /\ given.n = 0 => passed = 30
              /\ (given.n < 5 /\ given.n # 0) => passed = 5
              /\ given.n > 300 => passed = 300
              /\ (given.n >= 5 /\ given.n <= 300) => passed = given.n

C17_Witness ==
  /\ scall.timeoutSeconds = Num(0)
  /\ \E i \in DOMAIN steps : steps[i].op = "run" /\ RunSeconds(steps[i]) = 30

RECURSIVE Fixes(_)
Fixes(l) ==
  IF l = <<>> THEN <<>>
  ELSE (IF /\ l[1].kind = "result"
           /\ l[1].output # Undefined
           /\ l[1].output.s \notin {<<>>, l[1].source}
        THEN <<[file |-> l[1].file, content |-> l[1].output.s]>>
        ELSE <<>>) \o Fixes(Tail(l))

RECURSIVE WriteCalls(_)
WriteCalls(w) ==
  IF w = <<>> THEN <<>>
  ELSE <<[file |-> w[1].file, content |-> w[1].content]>> \o WriteCalls(Tail(w))

\* C19: the eslint tool writes a file back exactly when ESLint gave a fixed
\* output for it that is not empty and differs from the source read, and writes
\* that output; a file that is not read, not linted or needs no change is not
\* written; setDirty(true) is called only in a call that has written a file.
C19_WritesOnlyFixes ==
  /\ WriteCalls(writes) =
       IF epc = "writing"
       THEN SubSeq(Fixes(lints), 1, Len(Fixes(lints)) - 1)
       ELSE Fixes(lints)
  /\ \A i \in DOMAIN dirty :
       dirty[i] = TRUE /\ \E j \in DOMAIN writes : writes[j].written

C19_Witness ==
  /\ epc = "done"
  /\ Len(lints) = 2
  /\ Len(writes) = 1
  /\ dirty # <<>>
  /\ \E i \in DOMAIN lints : lints[i].output = Str(lints[i].source)

\* C20: the current eslint tool returns an array with one entry for each file of
\* the list, in the order of the list (an empty array without a list); each entry
\* names its file and holds either an output, "Successfully fixed" or "No changes
\* needed", or an error, never both, also when reading, linting, writing or a
\* log line fails for the file.
C20_OneEntryPerFile ==
  (epc = "done" /\ ecall.tool = "eslint") =>
    LET given == IF ecall.files = Undefined THEN <<>> ELSE ecall.files.items
    IN /\ eoutcome.kind = "returned"
       /\ eoutcome.value.t = "array"
       /\ Len(eoutcome.value.items) = Len(given)
       /\ \A i \in DOMAIN eoutcome.value.items :
            LET entry == eoutcome.value.items[i]
            IN /\ entry.file = ToRelativePath(given[i])
               /\ ("output" \in DOMAIN entry) # ("error" \in DOMAIN entry)
               /\ "output" \in DOMAIN entry =>
                    entry.output \in {"Successfully fixed", "No changes needed"}

\* ------------------------------------------------------------- claims, concluded
\* C21: every error a current tool's execute lets escape to its caller starts with
\* the tool's own name in brackets: input errors, not-detected errors, ESLint
\* start-up failures and failures of the filesystem and terminal calls it makes.
C21_ErrorsCarryToolName ==
  /\ (pc = "done" /\ call.tool \in CurrentTools /\ outcome.kind = "thrown") =>
       outcome.value.message[1] =
         (IF call.tool = "installPackages" THEN "[javascript_installPackages]"
          ELSE "[javascript_removePackages]")
  /\ (spc = "done" /\ scall.tool = "runJavaScriptScript" /\ soutcome.kind = "thrown") =>
       soutcome.value.message[1] = "[javascript_runJavaScriptScript]"
  /\ (epc = "done" /\ ecall.tool = "eslint" /\ eoutcome.kind = "thrown") =>
       eoutcome.value.message[1] = "[javascript/eslint]"

\* C22: the temporary file of a runJavaScriptScript call ends in .mjs exactly when
\* the format is esm and in .cjs exactly when it is commonjs, and the file written,
\* the file handed to node and the file deleted are this one file.
C22_TempFileExtension ==
  tempFile # <<>> =>
    LET extension == tempFile[Len(tempFile)]
        format == IF scall.format = Undefined THEN <<"esm">> ELSE scall.format.s
    IN /\ extension = ".mjs" <=> format = <<"esm">>
       /\ extension = ".cjs" <=> format = <<"commonjs">>
       /\ \A i \in DOMAIN steps :
            /\ steps[i].op \in {"write", "delete"} => steps[i].file = tempFile
            /\ steps[i].op = "run" => steps[i].argv[Len(steps[i].argv)] = tempFile

C22_Witness ==
  /\ spc = "done"
  /\ scall.format = Str(<<"commonjs">>)
  /\ FileSteps(steps) = <<"write", "run", "delete">>

\* C23: a runJavaScriptScript call with a missing or empty script, or with a format
\* other than esm and commonjs, ends at once with a thrown error: no file is
\* written, no command run, no delete attempted, and the working directory is as
\* it was.
C23_RejectedBeforeAnyStep ==
  [][(/\ spc = "idle"
      /\ spc' # "idle"
      /\ \/ scall'.script \in {Undefined, Str(<<>>)}
         \/ scall'.format \notin {Undefined, Str(<<"esm">>), Str(<<"commonjs">>)})
       => /\ spc' = "done"
          /\ soutcome'.kind = "thrown"
          /\ steps' = <<>>
          /\ tempFile' = <<>>
          /\ workdir' = workdir]_vars

C23_Witness ==
  /\ spc = "done"
  /\ scall.script = Str(<<"console.log(1)">>)
  /\ scall.format = Str(<<"amd">>)
  /\ soutcome.kind = "thrown"
  /\ workdir # {}

\* The eslint call made no call that failed other than reads, lints and writes of
\* its files: ESLint started and every log line was taken.
OnlyFileFaults == \A i \in DOMAIN faults : faults[i].op \in {"read", "lint", "write"}

\* C24: in the eslint tool a failed read, lint or write of one file gives an error
\* entry for that file and the loop goes on: the call returns an array with an
\* entry for every file of the list and does not throw (with ESLint started and
\* the log lines taken).
C24_FileFailureKeepsLoop ==
  (ecall.tool \in EslintTools /\ ecall.files # Undefined /\ OnlyFileFaults) =>
    /\ \A i \in DOMAIN faults :
         /\ faults[i].idx \in DOMAIN results
         /\ "error" \in DOMAIN results[faults[i].idx]
         /\ FileOf(results[faults[i].idx].file) = FileOf(ecall.files.items[faults[i].idx])
    /\ epc = "done" =>
         /\ eoutcome.kind = "returned"
         /\ eoutcome.value = Arr(results)
         /\ Len(results) = Len(ecall.files.items)

C24_Witness ==
  /\ epc = "done"
  /\ ecall.files # Undefined
  /\ OnlyFileFaults
  /\ Len(ecall.files.items) = 2
  /\ Len(results) = 2
  /\ \E i \in DOMAIN faults : faults[i].idx = 1
  /\ "output" \in DOMAIN results[2]

\* C25: against the same marker files installPackages and removePackages select
\* the same lockfile, and both end not-detected for the same marker files.
C25_SameDetection ==
  (/\ Detected
   /\ prev.tool \in CurrentTools
   /\ prev.tool # call.tool
   /\ prev.markers = markers)
    => Selected = prev.selected

\* C26: installPackages and removePackages reject the same inputs: a packageName
\* that names no package (empty, or blanks only) ends the call with the input
\* error before any lockfile is checked and any command run; any other is accepted.
C26_SameInputsRejected ==
  (call.tool \in CurrentTools /\ pc # "idle") =>
    LET rejected ==
          /\ pc = "done"
          /\ probes = <<>>
          /\ spawned = <<>>
          /\ outcome.kind = "thrown"
          /\ IsInvalidArgument(outcome.value.message)
    IN Names(call.packageName) = <<>> <=> rejected

\* C27: in the runJavaScriptScript version on filesystem.executeCommand the ok of
\* the result is what the command reported: true after an exit with 0, false
\* after an error, a timeout or another exit code.
C27_OkIsCommandOutcome ==
  (/\ spc = "done"
   /\ scall.tool = "runJavaScriptScript_part004"
   /\ soutcome.kind = "returned")
    => (soutcome.value.ok <=> (node.kind = "exit" /\ node.code = 0))

\* C28: in a result of the current runJavaScriptScript exitCode is 0 only with ok
\* true: after a timeout, an unknown error or a bad exit code it is not 0.
C28_ExitCodeZeroOnlyIfOk ==
  (/\ spc = "done"
   /\ scall.tool = "runJavaScriptScript"
   /\ soutcome.kind = "returned")
    => (soutcome.value.data.exitCode = Num(0) => soutcome.value.data.ok)

====
